---- MODULE Spec2Model ----
(***************************************************************************)
(* ebay2atom: src/main.rs.  One run of main(): read the page from stdin,   *)
(* extract feed title and feed link, extract one entry per listing         *)
(* fragment, write the Atom feed to stdout.                                *)
(*                                                                         *)
(* HTML parsing and CSS selection are done by the scraper crate; a page is *)
(* given here by its raw text (a sequence of characters, read by the two   *)
(* regular expressions) together with what each selector of main.rs        *)
(* selects in it, in document order.  An Option is a sequence of length    *)
(* at most one: << >> is None, <<x>> is Some(x).                           *)
(***************************************************************************)
EXTENDS Integers, Sequences, FiniteSets, TLC

VARIABLES stdin, feed_title, feed_link, feed, entries,
          item, entry, item_url, description, pc, exit, error, stdout

vars == <<stdin, feed_title, feed_link, feed, entries,
          item, entry, item_url, description, pc, exit, error, stdout>>

(***************************************************************************)
(* Bounds of the model.                                                    *)
(***************************************************************************)
\* The largest number of listing fragments on a page.
MaxItems == 2

(***************************************************************************)
(* Constants of main.rs.                                                   *)
(***************************************************************************)
NAME == "ebay2atom"
DivOpen == "<div xmlns=\"http://www.w3.org/1999/xhtml\">"
DivClose == "</div>"

None == << >>
Some(x) == <<x>>
Last(s) == s[Len(s)]

\* \d: the decimal digits.  (The regex crate also takes the decimal digits of
\* other scripts; the pages here are ASCII.)
Digits == {"0", "1", "2", "3", "4", "5", "6", "7", "8", "9"}
Newline == "\n"
Https == <<"h", "t", "t", "p", "s">>
BaseUrlPrefix == <<"b", "a", "s", "e", "U", "r", "l", "\"", ":", "\"",
                   "h", "t", "t", "p", "s", ":", "/", "/">>
\* Length of the part of BaseUrlPrefix before the capture group: baseUrl":"
BaseUrlKeyLen == 10

\* The literal lit stands in text at position s.
LiteralAt(text, s, lit) ==
    /\ s >= 1
    /\ s + Len(lit) - 1 <= Len(text)
    /\ SubSeq(text, s, s + Len(lit) - 1) = lit

\* The last position of the longest run, from position from on, of characters
\* that are not stop (from - 1 when the run is empty).
RECURSIVE RunEnd(_, _, _)
RunEnd(text, from, stop) ==
    IF from > Len(text) \/ text[from] = stop
    THEN from - 1
    ELSE RunEnd(text, from + 1, stop)

DigitsAt(text, d, n) ==
    /\ d + n - 1 <= Len(text)
    /\ \A k \in d .. d + n - 1 : text[k] \in Digits

(***************************************************************************)
(* url_regex: https.+(\d{10})                                              *)
(* The greedy .+ takes the longest run without a newline after https and   *)
(* gives characters back one at a time until ten digits follow it.         *)
(***************************************************************************)
RECURSIVE UrlBacktrack(_, _, _)
UrlBacktrack(text, s, k) ==
    IF k < s + Len(Https)
    THEN None
    ELSE IF DigitsAt(text, k + 1, 10)
         THEN Some([g0 |-> SubSeq(text, s, k + 10),
                    g1 |-> SubSeq(text, k + 1, k + 10)])
         ELSE UrlBacktrack(text, s, k - 1)

UrlMatchAt(text, s) ==
    IF LiteralAt(text, s, Https)
    THEN UrlBacktrack(text, s, RunEnd(text, s + Len(Https), Newline))
    ELSE None

RECURSIVE UrlSearch(_, _)
UrlSearch(text, s) ==
    IF s > Len(text)
    THEN None
    ELSE IF UrlMatchAt(text, s) # None
         THEN UrlMatchAt(text, s)
         ELSE UrlSearch(text, s + 1)

\* Faulty variant of url_regex_captures: positional slicing that never fails,
\* the first 36 characters as the match and characters 25 to 36 as the id.
url_regex_truncating(text) ==
    LET n == IF Len(text) < 36 THEN Len(text) ELSE 36
    IN Some([g0 |-> SubSeq(text, 1, n), g1 |-> SubSeq(text, 25, n)])

\* url_regex.captures(item_url): None, or Some of the whole match (group 0)
\* and the ten digits (group 1) of the leftmost match.
url_regex_captures(text) == UrlSearch(text, 1)

(***************************************************************************)
(* link_regex: baseUrl":"(https://[^&]+).*?"                               *)
(* The greedy [^&]+ takes the longest run without an ampersand and gives   *)
(* characters back until the lazy .*? (no newline) can reach a quote.      *)
(***************************************************************************)
\* .*?" matches from position from: a quote stands at or after from with no
\* newline before it.
QuoteReachable(text, from) ==
    LET e == RunEnd(text, from, Newline)
    IN \E q \in from .. e : text[q] = "\""

RECURSIVE LinkBacktrack(_, _, _)
LinkBacktrack(text, s, k) ==
    IF k < s + Len(BaseUrlPrefix)
    THEN None
    ELSE IF QuoteReachable(text, k + 1)
         THEN Some(SubSeq(text, s + BaseUrlKeyLen, k))
         ELSE LinkBacktrack(text, s, k - 1)

LinkMatchAt(text, s) ==
    IF LiteralAt(text, s, BaseUrlPrefix)
    THEN LinkBacktrack(text, s, RunEnd(text, s + Len(BaseUrlPrefix), "&"))
    ELSE None

RECURSIVE LinkSearch(_, _)
LinkSearch(text, s) ==
    IF s > Len(text)
    THEN None
    ELSE IF LinkMatchAt(text, s) # None
         THEN LinkMatchAt(text, s)
         ELSE LinkSearch(text, s + 1)

\* Faulty variant of link_regex_captures: the last match, not the first.
RECURSIVE LinkSearchBack(_, _)
LinkSearchBack(text, s) ==
    IF s < 1
    THEN None
    ELSE IF LinkMatchAt(text, s) # None
         THEN LinkMatchAt(text, s)
         ELSE LinkSearchBack(text, s - 1)

link_regex_last(text) == LinkSearchBack(text, Len(text))

\* link_regex.captures(&html): None, or Some of group 1 of the leftmost match.
link_regex_captures(text) == LinkSearch(text, 1)

(***************************************************************************)
(* Pages.  A listing fragment is what each item selector selects inside    *)
(* it: for title, price and the four optional attributes the matching      *)
(* elements, each the sequence of its text nodes; for the link the         *)
(* matching anchors, each the Option of its href.                          *)
(***************************************************************************)
ItemUrl == <<"h", "t", "t", "p", "s", ":", "/", "/", "w", "w", "w", ".",
             "e", "b", "a", "y", ".", "i", "t", "/", "i", "t", "m", "/",
             "1", "2", "3", "4", "5", "6", "7", "8", "9", "0", "1", "2">>
ItemUrl2 == <<"h", "t", "t", "p", "s", ":", "/", "/", "w", "w", "w", ".",
              "e", "b", "a", "y", ".", "i", "t", "/", "i", "t", "m", "/",
              "2", "3", "4", "5", "6", "7", "8", "9", "0", "1", "2", "3">>
\* A tracking suffix without a run of ten digits, and one with such a run.
TrackingHash == <<"?", "h", "a", "s", "h", "=", "i", "t", "e", "m", "4", "f">>
TrackingDigits == <<"?", "t", "=", "9", "8", "7", "6", "5", "4", "3", "2",
                    "1", "0", "&", "a", "=", "b">>
\* A redirect in front of the item URL.
Redirect == <<"/", "r", "?", "u", "=">>
\* Hrefs the pattern does not match: no https, and fewer than ten digits.
HttpUrl == <<"h", "t", "t", "p", ":", "/", "/", "w", "w", "w", ".", "e",
             "b", "a", "y", ".", "i", "t", "/", "i", "t", "m", "/", "1", "2",
             "3", "4", "5", "6", "7", "8", "9", "0", "1", "2">>
ShortUrl == <<"h", "t", "t", "p", "s", ":", "/", "/", "w", "w", "w", ".",
              "e", "b", "a", "y", ".", "i", "t", "/", "p", "/", "1", "2", "3">>

Frag(t, l, p, c, tl, po, a) ==
    [title |-> t, link |-> l, price |-> p, condition |-> c,
     time_left |-> tl, purchase_options |-> po, ad |-> a]

Elem(text) == <<<<text>>>>
Widget == Elem("Widget")
Anchor == <<Some(ItemUrl)>>
Ten == Elem("$10")

\* Sound mandatory fields, every subset of the optional attributes.
RichFragments ==
    {Frag(Widget, Anchor, Ten, c, tl, po, a) :
        c \in {<< >>, Elem("New")}, tl \in {<< >>, Elem("2d left")},
        po \in {<< >>, Elem("Buy it now")}, a \in {<< >>, Elem("Sponsored")}}

\* Fragments where an optional attribute's element has no text node.
EmptyOptionalFragments ==
    {Frag(Widget, Anchor, Ten, <<<< >>>>, << >>, << >>, << >>),
     Frag(Widget, Anchor, Ten, Elem("New"), <<<< >>>>, << >>, << >>),
     Frag(Widget, Anchor, Ten, << >>, << >>, <<<< >>>>, Elem("Sponsored")),
     Frag(Widget, Anchor, Ten, << >>, << >>, << >>, <<<< >>>>)}

\* Two sound fragments.
CoreFragments ==
    {Frag(Widget, Anchor, Ten, << >>, << >>, << >>, << >>),
     Frag(Elem("Gadget"), <<Some(ItemUrl2)>>, Elem("$20"),
          Elem("New"), << >>, << >>, << >>)}

\* Sound fragments with several text nodes, several matches, other hrefs.
VariedFragments ==
    {Frag(<<<<"New Listing", "Gadget">>>>, <<Some(ItemUrl2 \o TrackingHash)>>,
          <<<<"$20", "to", "$30">>>>, <<<<"Used", "Pre-owned">>>>,
          << >>, << >>, << >>),
     Frag(<<<<"Gadget">>, <<"Widget">>>>, <<Some(ItemUrl2), Some(ItemUrl)>>,
          <<<<"$20">>, <<"$10">>>>, << >>, << >>, << >>,
          <<<<"Sponsored">>, <<"Ad">>>>),
     Frag(Widget, <<Some(ItemUrl \o TrackingDigits)>>, Ten,
          << >>, << >>, << >>, << >>),
     Frag(Widget, <<Some(Redirect \o ItemUrl2 \o TrackingDigits)>>, Ten,
          << >>, << >>, << >>, << >>)}

\* Fragments lacking a mandatory field, or with an href the pattern rejects.
BrokenFragments ==
    {Frag(<< >>, Anchor, Ten, << >>, << >>, << >>, << >>),
     Frag(<<<< >>>>, Anchor, Ten, << >>, << >>, << >>, << >>),
     Frag(Widget, << >>, Ten, << >>, << >>, << >>, << >>),
     Frag(Widget, <<None>>, Ten, << >>, << >>, << >>, << >>),
     Frag(Widget, <<None, Some(ItemUrl)>>, Ten, << >>, << >>, << >>, << >>),
     Frag(Widget, <<Some(HttpUrl)>>, Ten, << >>, << >>, << >>, << >>),
     Frag(Widget, <<Some(ShortUrl)>>, Ten, << >>, << >>, << >>, << >>),
     Frag(Widget, Anchor, << >>, << >>, << >>, << >>, << >>),
     Frag(Widget, Anchor, <<<< >>>>, << >>, << >>, << >>, << >>)}

\* The fragments of the pages of Spec, and those of SpecOptional.
Fragments == CoreFragments \cup VariedFragments \cup BrokenFragments

OptionalFragments == RichFragments \cup EmptyOptionalFragments

ItemSeqs(S) == UNION {[1 .. n -> S] : n \in 0 .. MaxItems}

\* Raw texts: base URL ended by an ampersand; without ampersand; two
\* occurrences on two lines; no baseUrl key; no quote after the URL.
HtmlAmp == <<"{", "\"", "b", "a", "s", "e", "U", "r", "l", "\"", ":", "\"",
             "h", "t", "t", "p", "s", ":", "/", "/", "e", ".", "i", "t", "/",
             "s", "?", "q", "=", "a", "&", "p", "=", "1", "\"", ",", "\"",
             "n", "\"", ":", "2", "}">>
HtmlNoAmp == <<"{", "\"", "b", "a", "s", "e", "U", "r", "l", "\"", ":", "\"",
               "h", "t", "t", "p", "s", ":", "/", "/", "e", ".", "i", "t",
               "/", "s", "?", "q", "=", "a", "\"", ",", "\"", "n", "\"", ":",
               "\"", "b", "\"", "}">>
HtmlTwo == <<"b", "a", "s", "e", "U", "r", "l", "\"", ":", "\"",
             "h", "t", "t", "p", "s", ":", "/", "/", "e", ".", "i", "t", "/",
             "a", "&", "\"", "\n",
             "b", "a", "s", "e", "U", "r", "l", "\"", ":", "\"",
             "h", "t", "t", "p", "s", ":", "/", "/", "e", ".", "i", "t", "/",
             "b", "&", "\"">>
HtmlNoKey == <<"{", "\"", "b", "a", "s", "e", "\"", ":", "\"", "h", "t", "t",
               "p", "s", ":", "/", "/", "e", ".", "i", "t", "/", "s", "?",
               "q", "=", "a", "&", "p", "=", "1", "\"", "}">>
HtmlNoQuote == <<"b", "a", "s", "e", "U", "r", "l", "\"", ":", "\"",
                 "h", "t", "t", "p", "s", ":", "/", "/", "e", ".", "i", "t",
                 "/", "a", "&", "p", "\n", "\"">>
Htmls == {HtmlAmp, HtmlNoAmp, HtmlTwo, HtmlNoKey, HtmlNoQuote}

\* What input[name="_nkw"] selects: each element the Option of its value.
InputSeqs ==
    {<< >>, <<None>>, <<Some("laptop")>>, <<Some("laptop"), Some("phone")>>,
     <<None, Some("laptop")>>}

Page(u, text, inputs, items) ==
    [utf8 |-> u, text |-> text, inputs |-> inputs, items |-> items]

\* Pages with sound metadata and any fragments; with any metadata and sound
\* fragments; and input that is not UTF-8.
Pages ==
    {Page(TRUE, HtmlAmp, <<Some("laptop")>>, items) :
        items \in ItemSeqs(Fragments)}
    \cup {Page(TRUE, text, inputs, items) :
            text \in Htmls, inputs \in InputSeqs,
            items \in ItemSeqs(CoreFragments)}
    \cup {Page(FALSE, HtmlAmp, <<Some("laptop")>>, << >>)}

\* Pages with sound metadata whose fragments differ in the optional
\* attributes.
OptionalPages ==
    {Page(TRUE, HtmlAmp, <<Some("laptop")>>, items) :
        items \in ItemSeqs(OptionalFragments)}

(***************************************************************************)
(* The scraper and atom_syndication calls main() makes.                    *)
(***************************************************************************)
\* select(..).next()
first_match(selected) ==
    IF selected = << >> THEN None ELSE Some(Head(selected))

\* text().next()
first_text(element) ==
    IF element = << >> THEN None ELSE Some(Head(element))

\* Faulty variant of last_text: the first text node.
last_text_first(element) ==
    IF element = << >> THEN None ELSE Some(Head(element))

\* text().last()
last_text(element) ==
    IF element = << >> THEN None ELSE Some(Last(element))

\* LinkBuilder: rel alternate, type text/html, the href.
Link(href) ==
    [rel |-> "alternate", mime_type |-> Some("text/html"), href |-> href]

\* Entry::default(), with the content type set.
NewEntry ==
    [title |-> "", id |-> << >>, links |-> << >>,
     content |-> [content_type |-> Some("xhtml"), value |-> None],
     updated |-> ""]

\* write!(description, "<p>{label}: {value}</p>")
Line(label, value) == "<p>" \o label \o ": " \o value \o "</p>"

NoOutput == [bytes |-> "none", feed |-> None]

(***************************************************************************)
(* Init: main() is about to read some page.                                *)
(***************************************************************************)
Start(pages) ==
    /\ stdin \in pages
    /\ feed_title = ""
    /\ feed_link = << >>
    /\ feed = None
    /\ entries = << >>
    /\ item = 0
    /\ entry = NewEntry
    /\ item_url = << >>
    /\ description = ""
    /\ pc = "read"
    /\ exit = "running"
    /\ error = "none"
    /\ stdout = NoOutput

Init == Start(Pages)

InitOptional == Start(OptionalPages)

\* An unwrap() on None: the process panics (exit status 101) at once.
Panic(site) ==
    /\ pc' = "done"
    /\ exit' = "101"
    /\ error' = site

\* A ? on Err: main returns the error (exit status 1).
Fail(site) ==
    /\ pc' = "done"
    /\ exit' = "1"
    /\ error' = site

Goto(next) ==
    /\ pc' = next
    /\ UNCHANGED <<exit, error>>

\* Line 34: the string read from stdin, once ReadStdin has read it.
html == stdin.text

\* Line 35: Html::parse_document(&html), by what the selectors select in it.
document == [inputs |-> stdin.inputs, items |-> stdin.items]

\* The listing fragment the loop is at.
Fragment == document.items[item]

\* Lines 33-35: read stdin to a string (it must be UTF-8) and parse it.
ReadStdin ==
    /\ pc = "read"
    /\ IF stdin.utf8 THEN Goto("feed_title") ELSE Fail("stdin")
    /\ UNCHANGED <<stdin, feed_title, feed_link, feed, entries, item, entry,
                   item_url, description, stdout>>

\* Faulty variant of SelectFeedTitle: an empty title when the input or its
\* value is missing (unwrap_or_default).
SelectFeedTitleDefault ==
    /\ pc = "feed_title"
    /\ LET feed_title_input == first_match(stdin.inputs)
       IN feed_title' =
             IF feed_title_input = None \/ feed_title_input[1] = None
             THEN ""
             ELSE feed_title_input[1][1]
    /\ pc' = "feed_link"
    /\ UNCHANGED <<stdin, feed_link, feed, entries, item, entry, item_url,
                   description, exit, error, stdout>>

\* Lines 38-40: the value attribute of the first search input.
SelectFeedTitle ==
    /\ pc = "feed_title"
    /\ LET feed_title_input == first_match(document.inputs)
       IN IF feed_title_input = None
          THEN Panic("feed_title_input") /\ UNCHANGED feed_title
          ELSE IF feed_title_input[1] = None
               THEN Panic("feed_title_value") /\ UNCHANGED feed_title
               ELSE feed_title' = feed_title_input[1][1] /\ Goto("feed_link")
    /\ UNCHANGED <<stdin, feed_link, feed, entries, item,
                   entry, item_url, description, stdout>>

\* Lines 43-44: group 1 of link_regex in the raw text.
CaptureFeedLink ==
    /\ pc = "feed_link"
    /\ LET captures == link_regex_captures(html)
       IN IF captures = None
          THEN Panic("feed_link") /\ UNCHANGED feed_link
          ELSE feed_link' = captures[1] /\ Goto("build_feed")
    /\ UNCHANGED <<stdin, feed_title, feed, entries, item,
                   entry, item_url, description, stdout>>

\* Lines 47-89: generator, link, title, update time (one reading of the
\* clock, the same for the feed and every entry), the feed without entries,
\* the selectors, the empty entries vector (its capacity has no effect).
BuildFeed ==
    /\ pc = "build_feed"
    /\ feed' = Some([generator |-> NAME,
                     links |-> <<Link(feed_link)>>,
                     title |-> [type |-> "text", value |-> feed_title],
                     updated |-> "update_time",
                     entries |-> << >>])
    /\ entries' = << >>
    /\ item' = 0
    /\ Goto("next_item")
    /\ UNCHANGED <<stdin, feed_title, feed_link, entry,
                   item_url, description, stdout>>

\* Lines 92-96: the next fragment the items selector selects, if any.
NextItem ==
    /\ pc = "next_item"
    /\ IF item < Len(document.items)
       THEN /\ item' = item + 1
            /\ entry' = NewEntry
            /\ description' = DivOpen
            /\ Goto("title")
       ELSE /\ Goto("set_entries")
            /\ UNCHANGED <<item, entry, description>>
    /\ UNCHANGED <<stdin, feed_title, feed_link, feed,
                   entries, item_url, stdout>>

\* Lines 99-107: the last text node of the first title match.
ExtractTitle ==
    /\ pc = "title"
    /\ LET heading == first_match(Fragment.title)
       IN IF heading = None
          THEN Panic("title") /\ UNCHANGED entry
          ELSE IF last_text(heading[1]) = None
               THEN Panic("title_text") /\ UNCHANGED entry
               ELSE /\ entry' = [entry EXCEPT !.title = last_text(heading[1])[1]]
                    /\ Goto("link")
    /\ UNCHANGED <<stdin, feed_title, feed_link, feed,
                   entries, item, item_url, description, stdout>>

\* Lines 110-116: the href of the first link anchor.
ExtractLink ==
    /\ pc = "link"
    /\ LET anchor == first_match(Fragment.link)
       IN IF anchor = None
          THEN Panic("link") /\ UNCHANGED item_url
          ELSE IF anchor[1] = None
               THEN Panic("href") /\ UNCHANGED item_url
               ELSE item_url' = anchor[1][1] /\ Goto("url")
    /\ UNCHANGED <<stdin, feed_title, feed_link, feed,
                   entries, item, entry, description, stdout>>

\* Lines 118-128: the whole match of url_regex is the entry's link and id.
CaptureUrl ==
    /\ pc = "url"
    /\ LET url_captures == url_regex_captures(item_url)
       IN IF url_captures = None
          THEN Panic("url_regex") /\ UNCHANGED <<item_url, entry>>
          ELSE /\ item_url' = url_captures[1].g0
               /\ entry' = [entry EXCEPT !.links = <<Link(url_captures[1].g0)>>,
                                         !.id = url_captures[1].g0]
               /\ Goto("price")
    /\ UNCHANGED <<stdin, feed_title, feed_link, feed,
                   entries, item, description, stdout>>

\* Faulty variant of ExtractPrice: a fragment without a price is skipped
\* (continue) and the loop goes on.
ExtractPriceSkips ==
    /\ pc = "price"
    /\ LET price == first_match(stdin.items[item].price)
       IN IF price = None \/ first_text(price[1]) = None
          THEN pc' = "next_item" /\ UNCHANGED description
          ELSE /\ description' =
                    description \o Line("Price", first_text(price[1])[1])
               /\ pc' = "condition"
    /\ UNCHANGED <<stdin, feed_title, feed_link, feed, entries, item, entry,
                   item_url, exit, error, stdout>>

\* Lines 131-139: the first text node of the first price match.
ExtractPrice ==
    /\ pc = "price"
    /\ LET price == first_match(Fragment.price)
       IN IF price = None
          THEN Panic("price") /\ UNCHANGED description
          ELSE IF first_text(price[1]) = None
               THEN Panic("price_text") /\ UNCHANGED description
               ELSE /\ description' =
                         description \o Line("Price", first_text(price[1])[1])
                    /\ Goto("condition")
    /\ UNCHANGED <<stdin, feed_title, feed_link, feed,
                   entries, item, entry, item_url, stdout>>

\* Faulty variant of OptionalAttribute: an element without a text node is
\* skipped like a missing element.
OptionalAttributeLenient(selected, label, site, next) ==
    /\ LET element == first_match(selected)
       IN IF element = None \/ first_text(element[1]) = None
          THEN UNCHANGED description
          ELSE description' =
                  description \o Line(label, first_text(element[1])[1])
    /\ pc' = next
    /\ UNCHANGED <<stdin, feed_title, feed_link, feed, entries, item, entry,
                   item_url, exit, error, stdout>>

\* if let Some(e) = item.select(..).next() { e.text().next().unwrap() ... }
OptionalAttribute(selected, label, site, next) ==
    /\ LET element == first_match(selected)
       IN IF element = None
          THEN Goto(next) /\ UNCHANGED description
          ELSE IF first_text(element[1]) = None
               THEN Panic(site) /\ UNCHANGED description
               ELSE /\ description' =
                         description \o Line(label, first_text(element[1])[1])
                    /\ Goto(next)
    /\ UNCHANGED <<stdin, feed_title, feed_link, feed,
                   entries, item, entry, item_url, stdout>>

\* Lines 142-145.
ExtractCondition ==
    /\ pc = "condition"
    /\ OptionalAttribute(Fragment.condition, "Condition", "condition_text",
                         "time_left")

\* Faulty variant of ExtractTimeLeft: the line carries the label of the
\* block it was copied from.
ExtractTimeLeftMislabelled ==
    /\ pc = "time_left"
    /\ OptionalAttribute(Fragment.time_left, "Condition", "time_left_text",
                         "purchase_options")

\* Lines 148-151.
ExtractTimeLeft ==
    /\ pc = "time_left"
    /\ OptionalAttribute(Fragment.time_left, "Time left", "time_left_text",
                         "purchase_options")

\* Lines 154-157.
ExtractPurchaseOptions ==
    /\ pc = "purchase_options"
    /\ OptionalAttribute(Fragment.purchase_options, "Purchase options",
                         "purchase_options_text", "ad")

\* Lines 160-163.
ExtractAd ==
    /\ pc = "ad"
    /\ OptionalAttribute(Fragment.ad, "Ad", "ad_text", "push")

\* Faulty variant of PushEntry: the entry is put in front of the others.
PushEntryFront ==
    /\ pc = "push"
    /\ description' = description \o DivClose
    /\ entry' = [entry EXCEPT !.content.value = Some(description'),
                              !.updated = feed[1].updated]
    /\ entries' = <<entry'>> \o entries
    /\ pc' = "next_item"
    /\ UNCHANGED <<stdin, feed_title, feed_link, feed, item, item_url, exit,
                   error, stdout>>

\* Lines 166-170: close the description and append the entry.
PushEntry ==
    /\ pc = "push"
    /\ description' = description \o DivClose
    /\ entry' = [entry EXCEPT !.content.value = Some(description'),
                              !.updated = feed[1].updated]
    /\ entries' = Append(entries, entry')
    /\ Goto("next_item")
    /\ UNCHANGED <<stdin, feed_title, feed_link, feed, item,
                   item_url, stdout>>

\* Line 173.
SetEntries ==
    /\ pc = "set_entries"
    /\ feed' = Some([feed[1] EXCEPT !.entries = entries])
    /\ Goto("write")
    /\ UNCHANGED <<stdin, feed_title, feed_link, entries,
                   item, entry, item_url, description, stdout>>

\* Lines 175-181: the whole feed is written and main returns Ok.
WriteFeed ==
    /\ pc = "write"
    /\ stdout' = [bytes |-> "all", feed |-> feed]
    /\ pc' = "done"
    /\ exit' = "0"
    /\ UNCHANGED <<stdin, feed_title, feed_link, feed,
                   entries, item, entry, item_url, description, error>>

\* Line 180: writing to stdout fails, after no byte or after some.
WriteFeedFails ==
    /\ pc = "write"
    /\ \E written \in {"none", "part"} :
          stdout' = [bytes |-> written, feed |-> None]
    /\ Fail("stdout")
    /\ UNCHANGED <<stdin, feed_title, feed_link, feed,
                   entries, item, entry, item_url, description>>

Next ==
    \/ ReadStdin
    \/ SelectFeedTitle
    \/ CaptureFeedLink
    \/ BuildFeed
    \/ NextItem
    \/ ExtractTitle
    \/ ExtractLink
    \/ CaptureUrl
    \/ ExtractPrice
    \/ ExtractCondition
    \/ ExtractTimeLeft
    \/ ExtractPurchaseOptions
    \/ ExtractAd
    \/ PushEntry
    \/ SetEntries
    \/ WriteFeed
    \/ WriteFeedFails

Spec == Init /\ [][Next]_vars

SpecOptional == InitOptional /\ [][Next]_vars

(***************************************************************************)
(* Vocabulary of the properties.                                           *)
(***************************************************************************)
Done == pc = "done"
Succeeded == Done /\ exit = "0"
Failed == exit \in {"1", "101"}

\* The entries of the feed on stdout, after a successful run.
OutEntries == stdout.feed[1].entries

\* The href of the first link anchor of a fragment that has one.
HrefOf(f) == f.link[1][1]

\* sub occurs in text as a contiguous piece.
IsInfix(sub, text) ==
    \E s \in 1 .. Len(text) - Len(sub) + 1 :
        SubSeq(text, s, s + Len(sub) - 1) = sub

\* A fragment lacks a price, a title or its text, or a link anchor or its href.
MissingMandatory(f) ==
    \/ f.title = << >> \/ f.title[1] = << >>
    \/ f.link = << >> \/ f.link[1] = None
    \/ f.price = << >> \/ f.price[1] = << >>

\* Somewhere in h: https, one character or more (no newline), ten digits.
PatternOccurs(h) ==
    \E s \in {x \in 1 .. Len(h) : LiteralAt(h, x, Https)} :
        \E d \in s + Len(Https) + 1 .. Len(h) :
            /\ DigitsAt(h, d, 10)
            /\ \A k \in s + Len(Https) .. d - 1 : h[k] # Newline

LinkUnusable(f) ==
    f.link = << >> \/ f.link[1] = None \/ ~PatternOccurs(HrefOf(f))

\* The matches of the base-URL pattern that start at s, by the last position
\* k of the capture group: no ampersand in the group after https://, and a
\* quote ahead of k on the same line.
LinkEnds(text, s) ==
    {k \in s + Len(BaseUrlPrefix) .. Len(text) :
        /\ \A j \in s + Len(BaseUrlPrefix) .. k : text[j] # "&"
        /\ \E q \in k + 1 .. Len(text) :
              /\ text[q] = "\""
              /\ \A j \in k + 1 .. q - 1 : text[j] # Newline}

LinkStarts(text) ==
    {s \in 1 .. Len(text) :
        LiteralAt(text, s, BaseUrlPrefix) /\ LinkEnds(text, s) # {}}

SetMin(S) == CHOOSE x \in S : \A y \in S : x <= y
SetMax(S) == CHOOSE x \in S : \A y \in S : x >= y

\* The first capture group of the first (leftmost, greedy) match.
FirstBaseUrl(text) ==
    LET s == SetMin(LinkStarts(text))
    IN SubSeq(text, s + BaseUrlKeyLen, SetMax(LinkEnds(text, s)))

MetadataUnresolved ==
    \/ stdin.inputs = << >>
    \/ stdin.inputs[1] = None
    \/ LinkStarts(stdin.text) = {}

\* The optional attributes of a fragment in the fixed order, and their labels.
OptionalLabels == <<"Condition", "Time left", "Purchase options", "Ad">>
OptionalsOf(f) == <<f.condition, f.time_left, f.purchase_options, f.ad>>

\* Every optional attribute is absent or its first match has a text node.
OptionalsHaveText(f) ==
    \A j \in 1 .. 4 : OptionalsOf(f)[j] = << >> \/ OptionalsOf(f)[j][1] # << >>

\* The lines a description must have: <<label, value>> pairs.
ExpectedLines(f) ==
    LET present == SelectSeq(<<1, 2, 3, 4>>,
                             LAMBDA j : OptionalsOf(f)[j] # << >>)
    IN <<<<"Price", f.price[1][1]>>>> \o
       [j \in 1 .. Len(present) |->
           <<OptionalLabels[present[j]], OptionalsOf(f)[present[j]][1][1]>>]

RECURSIVE RenderLines(_)
RenderLines(lines) ==
    IF lines = << >>
    THEN ""
    ELSE "<p>" \o lines[1][1] \o ": " \o lines[1][2] \o "</p>"
            \o RenderLines(Tail(lines))

ExpectedDescription(f) == DivOpen \o RenderLines(ExpectedLines(f)) \o DivClose

\* Entry e carries the title, the link and the description of fragment f.
DerivedFrom(e, f) ==
    /\ e.title = f.title[1][Len(f.title[1])]
    /\ Len(e.links) = 1
    /\ IsInfix(e.links[1].href, HrefOf(f))
    /\ e.content.value = Some(ExpectedDescription(f))

(***************************************************************************)
(* Properties.                                                             *)
(***************************************************************************)

\* C1: after a successful run on a page with K listing fragments the feed
\* has exactly K entries, and the i-th entry is derived from the i-th
\* fragment in document order.
C1_EntriesFollowFragments ==
    Succeeded =>
        /\ Len(OutEntries) = Len(stdin.items)
        /\ \A i \in 1 .. Len(stdin.items) :
              DerivedFrom(OutEntries[i], stdin.items[i])

C1_Witness ==
    /\ Succeeded
    /\ Len(stdin.items) = 2
    /\ stdin.items[1].title # stdin.items[2].title
    /\ OutEntries[1].title # OutEntries[2].title

\* C2 (as claimed): every output entry's identifier is a string of ten
\* digits taken from the entry's link, and is not the link itself.
C2_IdIsTenDigits ==
    Succeeded =>
        \A i \in 1 .. Len(OutEntries) :
            /\ Len(OutEntries[i].id) = 10
            /\ \A k \in 1 .. Len(OutEntries[i].id) :
                  OutEntries[i].id[k] \in Digits
            /\ IsInfix(OutEntries[i].id, OutEntries[i].links[1].href)
            /\ OutEntries[i].id # OutEntries[i].links[1].href

\* C3: if any fragment, at any position, lacks a mandatory field, nothing is
\* ever written to stdout and the run ends with a non-zero status.
C3_NoShortFeed ==
    (\E i \in 1 .. Len(stdin.items) : MissingMandatory(stdin.items[i])) =>
        /\ stdout = NoOutput
        /\ exit # "0"
        /\ Done => Failed

C3_Witness ==
    /\ Done
    /\ exit = "101"
    /\ item = 2
    /\ Len(entries) = 1
    /\ ~MissingMandatory(stdin.items[1])
    /\ MissingMandatory(stdin.items[2])
    /\ stdout = NoOutput

\* C4: on a page with sound metadata and mandatory fields whose optional
\* attributes are absent or have text, the run does not abort in extraction,
\* and every entry's description is the wrapping block holding the Price
\* line and then one label: value line per present optional attribute, in
\* the order Condition, Time left, Purchase options, Ad.
C4_DescriptionLines ==
    /\ Succeeded =>
          \A i \in 1 .. Len(OutEntries) :
              OutEntries[i].content.value =
                  Some(ExpectedDescription(stdin.items[i]))
    /\ ( /\ Done
         /\ stdin.utf8
         /\ ~MetadataUnresolved
         /\ \A i \in 1 .. Len(stdin.items) :
               /\ ~MissingMandatory(stdin.items[i])
               /\ ~LinkUnusable(stdin.items[i])
               /\ OptionalsHaveText(stdin.items[i]) )
       => error \in {"none", "stdout"}

C4_Witness ==
    /\ Succeeded
    /\ \E i \in 1 .. Len(OutEntries) :
          /\ \A j \in 1 .. 4 : OptionalsOf(stdin.items[i])[j] # << >>
          /\ OutEntries[i].content.value =
                Some(DivOpen
                     \o "<p>Price: $10</p><p>Condition: New</p>"
                     \o "<p>Time left: 2d left</p>"
                     \o "<p>Purchase options: Buy it now</p>"
                     \o "<p>Ad: Sponsored</p>" \o DivClose)
    /\ \E i \in 1 .. Len(OutEntries) :
          /\ stdin.items[i].condition = << >>
          /\ stdin.items[i].time_left # << >>
          /\ stdin.items[i].ad # << >>

\* C5: after a successful run the feed has exactly one alternate link, whose
\* href is the first capture group of the first match of the base-URL
\* pattern in the raw text, and a plain-text title that is the value
\* attribute of the first search input.
C5_FeedMetadata ==
    Succeeded =>
        /\ stdout.feed[1].links =
              <<[rel |-> "alternate", mime_type |-> Some("text/html"),
                 href |-> FirstBaseUrl(stdin.text)]>>
        /\ stdout.feed[1].title =
              [type |-> "text", value |-> stdin.inputs[1][1]]

C5_Witness ==
    /\ Succeeded
    /\ Len(stdin.inputs) = 2
    /\ stdin.inputs[1] # stdin.inputs[2]
    /\ Cardinality(LinkStarts(stdin.text)) = 2

\* C6: if the page metadata cannot be resolved, nothing is ever written and
\* the run ends with a non-zero status, however many sound fragments the
\* page has; and status zero comes only with the complete feed written.
C6_MetadataOrNothing ==
    /\ MetadataUnresolved =>
          /\ stdout = NoOutput
          /\ exit # "0"
          /\ Done => Failed
    /\ exit = "0" =>
          /\ Done
          /\ stdout.bytes = "all"
          /\ stdout.feed # None
          /\ Len(OutEntries) = Len(stdin.items)

C6_Witness ==
    /\ Done
    /\ MetadataUnresolved
    /\ Len(stdin.items) >= 2
    /\ \A i \in 1 .. Len(stdin.items) : ~MissingMandatory(stdin.items[i])
    /\ exit = "101"
    /\ stdout = NoOutput

\* C7 (as claimed): every entry's link is the first 36 characters of the
\* anchor's href, so nothing of the href beyond the canonical item URL
\* appears in it.
C7_LinkIsCanonicalPrefix ==
    Succeeded =>
        \A i \in 1 .. Len(OutEntries) :
            /\ Len(HrefOf(stdin.items[i])) >= 36
            /\ OutEntries[i].links[1].href =
                  SubSeq(HrefOf(stdin.items[i]), 1, 36)

\* C8 (as claimed): link extraction fails only when no anchor or no href
\* attribute is found; an href that does not match the template still
\* gives an entry.
C8_LinkFailsOnlyWithoutHref ==
    (Done /\ error \in {"link", "href", "url_regex"}) =>
        (Fragment.link = << >> \/ Fragment.link[1] = None)

\* C8 (amended): an href in which the pattern https, one character or more,
\* ten digits does not occur makes link extraction fail like a missing
\* anchor or href: the fragment gives no entry, nothing is written and the
\* run fails; and link extraction fails in no other case.
C8_LinkFailsWithoutMatch ==
    /\ \A i \in 1 .. Len(stdin.items) :
          LinkUnusable(stdin.items[i]) =>
              /\ Len(entries) < i
              /\ stdout = NoOutput
              /\ exit # "0"
              /\ Done => Failed
    /\ (Done /\ error \in {"link", "href", "url_regex"}) =>
          LinkUnusable(Fragment)

C8_Witness ==
    /\ Done
    /\ error = "url_regex"
    /\ exit = "101"
    /\ Fragment.link # << >>
    /\ Fragment.link[1] # None
    /\ Len(entries) = 1
    /\ stdout = NoOutput

\* C9: every entry's title is the last text node of the first title match
\* of its fragment (an earlier text node is never the title; a single text
\* node is the title); a fragment with no title match, or none with a text
\* node, makes the run fail with nothing written.
C9_TitleIsLastText ==
    /\ \A i \in 1 .. Len(entries) :
          entries[i].title =
              stdin.items[i].title[1][Len(stdin.items[i].title[1])]
    /\ \A i \in 1 .. Len(stdin.items) :
          (stdin.items[i].title = << >> \/ stdin.items[i].title[1] = << >>) =>
              /\ Len(entries) < i
              /\ stdout = NoOutput
              /\ exit # "0"
              /\ Done => Failed

C9_Witness ==
    /\ Succeeded
    /\ \E i \in 1 .. Len(OutEntries) :
          /\ Len(stdin.items[i].title[1]) = 2
          /\ stdin.items[i].title[1][1] = "New Listing"
          /\ OutEntries[i].title = "Gadget"
    /\ \E i \in 1 .. Len(OutEntries) :
          /\ Len(stdin.items[i].title[1]) = 1
          /\ OutEntries[i].title = stdin.items[i].title[1][1]

\* C10: an optional attribute is skipped without error only when nothing
\* matches its selector; a match without a text node aborts the run with
\* nothing written, and an optional attribute aborts the run in no other
\* case.
C10_EmptyOptionalAborts ==
    /\ \A i \in 1 .. Len(stdin.items) :
          ~OptionalsHaveText(stdin.items[i]) =>
              /\ Len(entries) < i
              /\ stdout = NoOutput
              /\ exit # "0"
              /\ Done => Failed
    /\ \A j \in 1 .. 4 :
          (Done /\ error = <<"condition_text", "time_left_text",
                             "purchase_options_text", "ad_text">>[j]) =>
              /\ OptionalsOf(Fragment)[j] # << >>
              /\ OptionalsOf(Fragment)[j][1] = << >>

C10_Witness ==
    /\ Done
    /\ error = "time_left_text"
    /\ exit = "101"
    /\ Fragment.condition # << >>
    /\ Len(entries) = 1
    /\ stdin.items[1].ad = << >>
    /\ stdout = NoOutput

====
